---- MODULE Spec2Model ----
(***************************************************************************)
(* deploy-watcher (src/watcher.py): the polling loop of DeployWatcher,     *)
(* its concurrent probes, the threshold-gated escalation, the Notifier's   *)
(* sink fan-out and the cooldown-guarded RollbackEngine.                   *)
(*                                                                         *)
(* The control path of DeployWatcher.run() is one coroutine; `pc` is its   *)
(* position.  Probes and sink deliveries are the tasks asyncio.gather runs *)
(* concurrently; each resolves in its own step, in any order.  Wall-clock  *)
(* time (time.time()) is the integer `now`; it advances while the control  *)
(* path is suspended at an await (Tick).                                   *)
(*                                                                         *)
(* Spec is the polling loop left to itself; SpecOnce is main() with        *)
(* --once (one run_once, then sys.exit); SpecRun adds an external          *)
(* interrupt at every await and the finally block of run(); SpecLive is    *)
(* the loop under weak fairness.                                           *)
(***************************************************************************)
EXTENDS Integers, Sequences, FiniteSets, TLC

(* ---------------------------- bounds ----------------------------------- *)
MaxCycles == 3
MaxTime == 2
MaxThreshold == 2
MaxCooldown == 1

(* ------------------------ configuration -------------------------------- *)
\* The `services` list of the configuration file, in declaration order.
\* ServiceSpec.name is the unique key of a service (spec section 3).
services == <<"api", "web">>

N == Len(services)

\* ServiceStatus (the enum's values)
HEALTHY == "healthy"
DEGRADED == "degraded"
DOWN == "down"
UNKNOWN == "unknown"

\* Python's None
None == -1

\* ServiceConfig.expected_status of each service
expected_status == [n \in {"api", "web"} |-> 200]

\* ServiceConfig.expected_body of each service, a string as the sequence of
\* its characters; "web" has none (Python's None, falsy like "")
expected_body == [n \in {"api", "web"} |->
                     IF n = "api" THEN <<"o", "k">> ELSE <<>>]

\* The status codes and the bodies a responder sends.
StatusCodes == {200, 503}

Bodies == {<<"o", "k">>, <<"k", "o">>}

\* The request raised `exc` (kind "timeout": an httpx.TimeoutException,
\* kind "error": any other Exception; exc is str(e)).
Raised(kind, exc) == [kind |-> kind, exc |-> exc, status_code |-> None, text |-> <<>>]

\* The request returned a response.
Response(code, text) ==
    [kind |-> "response", exc |-> "", status_code |-> code, text |-> text]

NoOutcome == Raised("none", "")

\* What one HTTP request of HealthChecker.check can end in.
ProbeOutcomes ==
    {Raised("timeout", "ReadTimeout"), Raised("error", "ConnectError")}
    \cup {Response(c, t) : c \in StatusCodes, t \in Bodies}

\* The two httpx.AsyncClient objects run() closes.
Clients == {"checker", "notifier"}

\* Exit codes of the remediation command.
ExitCodes == {0, 1}

Sinks == {"slack", "webhook"}

VARIABLES
    threshold,       \* DeployWatcher.threshold
    enabled,         \* RollbackEngine.enabled
    command,         \* RollbackEngine.command
    cooldown,        \* RollbackEngine.cooldown
    slack_url,       \* Notifier.slack_url
    webhook_url,     \* Notifier.webhook_url
    pc,              \* position of the control path of run()
    cycle,           \* number of run_once calls started
    idx,             \* position of `for result in results` (0: not in the loop)
    probe,           \* state of each task of check_all's gather
    probeOut,        \* the CheckResult each probe task returned
    completed,       \* probe indices in completion order
    results,         \* the list check_all returned to run_once
    failure_counts,  \* DeployWatcher.failure_counts (a dict)
    sink,            \* state of each task of notify's gather
    last_rollback,   \* RollbackEngine._last_rollback
    proc,            \* the subprocess of the execute() call in progress
    execRet,         \* what the latest execute() call returned
    execPath,        \* the path the latest execute() call took
    now,             \* time.time()
    history,         \* per service, the statuses check_all returned since (and
                     \* with) the latest one that was not DOWN, oldest first
    notifyCalls,     \* per service, Notifier.notify calls of the current cycle
    execCalls,       \* per service, RollbackEngine.execute calls of the current cycle
    lastLaunched,    \* when execute() last started the command's process
    probeRaw,        \* per probe task, what its HTTP request ended in
    launches,        \* processes execute() started during the current run_once
    orphan,          \* a process started by an execute() call of the current
                     \* run_once is still running though the call has returned
    closeCalls,      \* per client, the close() calls run() has made
    exitCode         \* the code main() gave to sys.exit (None: not exited)

vars == <<threshold, enabled, command, cooldown, slack_url, webhook_url, pc,
          cycle, idx, probe, probeOut, completed, results, failure_counts,
          sink, last_rollback, proc, execRet, execPath, now, history,
          notifyCalls, execCalls, lastLaunched, probeRaw, launches, orphan,
          closeCalls, exitCode>>

configVars == <<threshold, enabled, command, cooldown, slack_url, webhook_url>>

(* --------------------------- helpers ----------------------------------- *)
\* Python truthiness of an Optional[float]: None and 0.0 are false.
Truthy(x) == x # None /\ x # 0

\* Variant: an assignment that drops the other keys.
PutOnly(d, k, v) == [x \in {k} |-> v]

\* dict.get(key, default)
Get(d, k, default) == IF k \in DOMAIN d THEN d[k] ELSE default

\* d[key] = value
Put(d, k, v) == [x \in DOMAIN d \cup {k} |-> IF x = k THEN v ELSE d[x]]

NoResult == [service_name |-> "", status |-> "", error |-> ""]

CheckResult(name, st, err) == [service_name |-> name, status |-> st, error |-> err]

\* Python's `sub in text` on strings
Contains(sub, text) ==
    \E i \in 0..(Len(text) - Len(sub)) : SubSeq(text, i + 1, i + Len(sub)) = sub

\* Variant: the response body is not looked at.
BodyIgnored(expected, text) == FALSE

\* HealthChecker.check:
\* `service.expected_body and service.expected_body not in response.text`
BodyMissing(expected, text) == expected # <<>> /\ ~Contains(expected, text)

\* HealthChecker.check: the status of a received response
ResponseStatus(name, code, text) ==
    LET s1 == IF code # expected_status[name] THEN DEGRADED ELSE HEALTHY
    IN IF BodyMissing(expected_body[name], text) THEN DEGRADED ELSE s1

\* HealthChecker.check: the CheckResult for what the request ended in
Classify(name, outcome) ==
    CASE outcome.kind = "timeout" -> CheckResult(name, DOWN, "Timeout")
      [] outcome.kind = "error"   -> CheckResult(name, DOWN, outcome.exc)
      [] OTHER -> CheckResult(name,
                      ResponseStatus(name, outcome.status_code, outcome.text),
                      "None")

\* Variant: a gather that resolves with the first task to finish.
AnyProbeDone(p) == \E i \in 1..N : p[i] = "done"

\* asyncio.gather(*tasks) of check_all: resolved once every task is.
AllProbesDone(p) == \A i \in 1..N : p[i] = "done"

\* Variant: the results in the order in which the tasks finished.
GatherCompletionOrder(out, order) == [i \in 1..Len(order) |-> out[order[i]]]

\* asyncio.gather(*tasks) of check_all: the results, in the order of the
\* tasks (`order`, the completion order, plays no part).
GatherResults(out, order) == [i \in 1..N |-> out[i]]

\* Variant: every result that is not HEALTHY counts as a failure.
IsNotHealthy(st) == st # HEALTHY

\* run_once: `result.status == ServiceStatus.DOWN`
IsDown(st) == st = DOWN

\* Variant: escalation only above the threshold.
AboveThreshold(c, t) == c > t

\* Variant: escalation only in the cycle that reaches the threshold.
AtThreshold(c, t) == c = t

\* run_once: `self.failure_counts[name] >= self.threshold`
ReachedThreshold(c, t) == c >= t

\* Notifier.notify: the tasks list
SinkTasks == {k \in Sinks : (k = "slack" /\ slack_url # "")
                            \/ (k = "webhook" /\ webhook_url # "")}

\* Variant: a gather that resolves with the first sink to finish.
AnySinkDone(s) == \E k \in Sinks : s[k] \in {"ok", "failed"}

\* asyncio.gather(*tasks, return_exceptions=True) of notify: resolved once
\* every sink task is, whether it returned or raised.
SinksDone(s) == \A k \in Sinks : s[k] # "running"

\* Variant: a gather without return_exceptions, which re-raises a task's
\* exception in notify.
FailureRaises(s) == \E k \in Sinks : s[k] = "failed"

\* Notifier.notify: whether the gather raises into notify and so into
\* run_once (return_exceptions=True: a task's exception is a result)
NotifyRaises(s) == FALSE

\* The tasks of a gather that has returned are gone.
Finished(s) == [k \in Sinks |-> IF s[k] = "running" THEN "running" ELSE "idle"]

\* Variant: off only when disabled and without a command.
BothOff(en, cmd) == ~en /\ cmd = ""

\* RollbackEngine.execute: `not self.enabled or not self.command`
GuardOff(en, cmd) == ~en \/ cmd = ""

\* Variant: no cooldown test.
NeverInCooldown(last, t, cd) == FALSE

\* Variant: a cooldown that ends one second early.
ShortCooldown(last, t, cd) == Truthy(last) /\ t - last < cd - 1

\* RollbackEngine.execute: `if self._last_rollback:` and
\* `time.time() - self._last_rollback < self.cooldown`
InCooldown(last, t, cd) == Truthy(last) /\ t - last < cd

\* Variant: every exit code counts as success.
AnyExit(rc) == TRUE

\* RollbackEngine.execute: `proc.returncode == 0`
ExitOk(rc) == rc = 0

\* Variant: only a Down result makes the run fail.
OnlyDownFails(st) == st = DOWN

\* main: `r.status != ServiceStatus.HEALTHY`
IsFailed(st) == st # HEALTHY

\* main: `failed = [r for r in results if ...]`; `1 if failed else 0`
ExitCodeOf(rs) ==
    LET Keep(r) == IsFailed(r.status)
        failed == SelectSeq(rs, Keep)
    IN IF failed # <<>> THEN 1 ELSE 0

\* Python's spelling of a bool
PyBool(b) == IF b THEN "True" ELSE "False"

ExecPcs == {"execute", "launching", "waiting"}

\* The positions at which the control path is suspended at an await.
AwaitPcs == {"probing", "notify_wait", "launching", "waiting", "sleep"}

NoProc == [state |-> "none", returncode |-> None]

(* ----------------------------- Init ------------------------------------ *)
\* The configurations: with remediation on, every threshold under the
\* longest cooldown and every cooldown under threshold 1; every choice of
\* sinks; with remediation off (disabled, or no command, or both), every
\* cooldown.
Configs ==
    {[threshold |-> t, enabled |-> TRUE, command |-> "rollback.sh",
      cooldown |-> MaxCooldown, slack_url |-> "https://slack",
      webhook_url |-> ""] : t \in 1..MaxThreshold}
    \cup
    {[threshold |-> 1, enabled |-> TRUE, command |-> "rollback.sh",
      cooldown |-> c, slack_url |-> "https://slack", webhook_url |-> ""] :
        c \in 0..MaxCooldown}
    \cup
    {[threshold |-> 1, enabled |-> TRUE, command |-> "rollback.sh",
      cooldown |-> MaxCooldown, slack_url |-> u[1], webhook_url |-> u[2]] :
        u \in {"", "https://slack"} \X {"", "https://hook"}}
    \cup
    {[threshold |-> 1, enabled |-> g[1], command |-> g[2],
      cooldown |-> c, slack_url |-> "https://slack", webhook_url |-> ""] :
        g \in {<<FALSE, "">>, <<FALSE, "rollback.sh">>, <<TRUE, "">>},
        c \in 0..MaxCooldown}

\* The state after DeployWatcher.__init__
Init ==
    /\ \E cfg \in Configs :
          /\ threshold = cfg.threshold
          /\ enabled = cfg.enabled
          /\ command = cfg.command
          /\ cooldown = cfg.cooldown
          /\ slack_url = cfg.slack_url
          /\ webhook_url = cfg.webhook_url
    /\ pc = "loop"
    /\ cycle = 0
    /\ idx = 0
    /\ probe = [i \in 1..N |-> "idle"]
    /\ probeOut = [i \in 1..N |-> NoResult]
    /\ completed = <<>>
    /\ results = <<>>
    /\ failure_counts = [x \in {} |-> 0]
    /\ sink = [k \in Sinks |-> "idle"]
    /\ last_rollback = None
    /\ proc = NoProc
    /\ execRet = "None"
    /\ execPath = "none"
    /\ now = 1
    /\ history = [i \in 1..N |-> <<>>]
    /\ notifyCalls = [i \in 1..N |-> 0]
    /\ execCalls = [i \in 1..N |-> 0]
    /\ lastLaunched = None
    /\ probeRaw = [i \in 1..N |-> NoOutcome]
    /\ launches = 0
    /\ orphan = FALSE
    /\ closeCalls = [c \in Clients |-> 0]
    /\ exitCode = None

(* ---------------------------- actions ---------------------------------- *)
\* time passes while the control path waits
Tick ==
    /\ pc \in AwaitPcs
    /\ now < MaxTime
    /\ now' = now + 1
    /\ UNCHANGED <<configVars, pc, cycle, idx, probe, probeOut, completed,
                   results, failure_counts, sink, last_rollback, proc, execRet,
                   execPath, history, notifyCalls, execCalls, lastLaunched,
                   probeRaw, launches, orphan, closeCalls, exitCode>>

\* run(): `await self.run_once(verbose)`; run_once: `await self.check_all()`;
\* check_all creates one check task per service and gathers them.
StartCycle ==
    /\ pc = "loop"
    /\ cycle < MaxCycles
    /\ cycle' = cycle + 1
    /\ pc' = "probing"
    /\ probe' = [i \in 1..N |-> "running"]
    /\ probeOut' = [i \in 1..N |-> NoResult]
    /\ probeRaw' = [i \in 1..N |-> NoOutcome]
    /\ completed' = <<>>
    /\ notifyCalls' = [i \in 1..N |-> 0]
    /\ execCalls' = [i \in 1..N |-> 0]
    /\ UNCHANGED <<configVars, idx, results, failure_counts, sink, last_rollback,
                   proc, execRet, execPath, now, history, lastLaunched, launches,
                   orphan, closeCalls, exitCode>>

\* HealthChecker.check of service i resolves
ProbeResolve(i, outcome) ==
    /\ probe[i] = "running"
    /\ probe' = [probe EXCEPT ![i] = "done"]
    /\ probeRaw' = [probeRaw EXCEPT ![i] = outcome]
    /\ probeOut' = [probeOut EXCEPT ![i] = Classify(services[i], outcome)]
    /\ completed' = Append(completed, i)
    /\ UNCHANGED <<configVars, pc, cycle, idx, results, failure_counts, sink,
                   last_rollback, proc, execRet, execPath, now, history,
                   notifyCalls, execCalls, lastLaunched, launches, orphan,
                   closeCalls, exitCode>>

\* check_all's gather resolves: run_once has `results`
GatherReturn ==
    /\ pc = "probing"
    /\ AllProbesDone(probe)
    /\ results' = GatherResults(probeOut, completed)
    /\ history' = [i \in 1..N |->
                     IF i > Len(results') THEN history[i]
                     ELSE IF results'[i].status # DOWN
                          THEN <<results'[i].status>>
                          ELSE Append(history[i], results'[i].status)]
    /\ pc' = "checked"
    /\ UNCHANGED <<configVars, cycle, idx, probe, probeOut, completed,
                   failure_counts, sink, last_rollback, proc, execRet, execPath,
                   now, notifyCalls, execCalls, lastLaunched, probeRaw, launches,
                   orphan, closeCalls, exitCode>>

\* run_once: `if verbose: self._print_results(results)`, then the for loop
\* is entered; the finished tasks of the gather are gone
PrintResults ==
    /\ pc = "checked"
    /\ pc' = "fold"
    /\ idx' = 1
    /\ probe' = [i \in 1..N |-> IF probe[i] = "running" THEN "running" ELSE "idle"]
    /\ probeOut' = [i \in 1..N |-> NoResult]
    /\ probeRaw' = [i \in 1..N |-> NoOutcome]
    /\ completed' = <<>>
    /\ UNCHANGED <<configVars, cycle, results, failure_counts, sink,
                   last_rollback, proc, execRet, execPath, now, history,
                   notifyCalls, execCalls, lastLaunched, launches, orphan,
                   closeCalls, exitCode>>

\* run_once drops what the previous execute() returned
Discard ==
    /\ execRet' = "None"
    /\ execPath' = "none"
    /\ proc' = NoProc

\* run_once: a result that is not DOWN resets the counter
FoldNotDown ==
    /\ pc = "fold"
    /\ idx \in 1..Len(results)
    /\ ~IsDown(results[idx].status)
    /\ failure_counts' = Put(failure_counts, results[idx].service_name, 0)
    /\ idx' = idx + 1
    /\ Discard
    /\ UNCHANGED <<configVars, pc, cycle, probe, probeOut, completed, results,
                   sink, last_rollback, now, history, notifyCalls, execCalls,
                   lastLaunched, probeRaw, launches, orphan, closeCalls, exitCode>>

\* run_once: a DOWN result increments the counter; at or above the threshold
\* the loop goes on to notify, otherwise to the next result
FoldDown ==
    /\ pc = "fold"
    /\ idx \in 1..Len(results)
    /\ IsDown(results[idx].status)
    /\ LET name == results[idx].service_name
           c == Get(failure_counts, name, 0) + 1
       IN /\ failure_counts' = Put(failure_counts, name, c)
          /\ IF ReachedThreshold(c, threshold)
             THEN pc' = "notify" /\ idx' = idx
             ELSE pc' = "fold" /\ idx' = idx + 1
    /\ Discard
    /\ UNCHANGED <<configVars, cycle, probe, probeOut, completed, results, sink,
                   last_rollback, now, history, notifyCalls, execCalls,
                   lastLaunched, probeRaw, launches, orphan, closeCalls, exitCode>>

\* Notifier.notify: builds the tasks; with none it returns at once, otherwise
\* it gathers them
NotifyCall ==
    /\ pc = "notify"
    /\ notifyCalls' = [notifyCalls EXCEPT ![idx] = @ + 1]
    /\ IF SinkTasks = {}
       THEN pc' = "execute" /\ sink' = sink
       ELSE /\ pc' = "notify_wait"
            /\ sink' = [k \in Sinks |-> IF k \in SinkTasks THEN "running" ELSE "idle"]
    /\ UNCHANGED <<configVars, cycle, idx, probe, probeOut, completed, results,
                   failure_counts, last_rollback, proc, execRet, execPath, now,
                   history, execCalls, lastLaunched, probeRaw, launches, orphan,
                   closeCalls, exitCode>>

\* _send_slack / _send_webhook: the POST returns or raises
SinkResolve(k, ok) ==
    /\ sink[k] = "running"
    /\ sink' = [sink EXCEPT ![k] = IF ok THEN "ok" ELSE "failed"]
    /\ UNCHANGED <<configVars, pc, cycle, idx, probe, probeOut, completed,
                   results, failure_counts, last_rollback, proc, execRet,
                   execPath, now, history, notifyCalls, execCalls, lastLaunched,
                   probeRaw, launches, orphan, closeCalls, exitCode>>

\* notify's gather resolves; notify returns and run_once goes on to
\* `await self.rollback.execute()`, unless the gather raised
NotifyReturn ==
    /\ pc = "notify_wait"
    /\ SinksDone(sink)
    /\ pc' = IF NotifyRaises(sink) THEN "finally" ELSE "execute"
    /\ UNCHANGED <<configVars, cycle, idx, probe, probeOut, completed, results,
                   failure_counts, sink, last_rollback, proc, execRet, execPath,
                   now, history, notifyCalls, execCalls, lastLaunched, probeRaw,
                   launches, orphan, closeCalls, exitCode>>

\* execute() returns r to run_once, which takes the next result
ExecReturn(r, path) ==
    /\ execRet' = r
    /\ execPath' = path
    /\ pc' = "fold"
    /\ idx' = idx + 1

\* RollbackEngine.execute: disabled, or no command
ExecuteOff ==
    /\ pc = "execute"
    /\ sink' = Finished(sink)
    /\ GuardOff(enabled, command)
    /\ execCalls' = [execCalls EXCEPT ![idx] = @ + 1]
    /\ ExecReturn("False", "off")
    /\ UNCHANGED <<configVars, cycle, probe, probeOut, completed, results,
                   failure_counts, last_rollback, proc, now, history,
                   notifyCalls, lastLaunched, probeRaw, launches, orphan,
                   closeCalls, exitCode>>

\* RollbackEngine.execute: rejected by the cooldown
ExecuteCooldown ==
    /\ pc = "execute"
    /\ sink' = Finished(sink)
    /\ ~GuardOff(enabled, command)
    /\ InCooldown(last_rollback, now, cooldown)
    /\ execCalls' = [execCalls EXCEPT ![idx] = @ + 1]
    /\ ExecReturn("False", "cooldown")
    /\ UNCHANGED <<configVars, cycle, probe, probeOut, completed, results,
                   failure_counts, last_rollback, proc, now, history,
                   notifyCalls, lastLaunched, probeRaw, launches, orphan,
                   closeCalls, exitCode>>

\* RollbackEngine.execute: `await asyncio.create_subprocess_shell(...)`
ExecuteLaunch ==
    /\ pc = "execute"
    /\ sink' = Finished(sink)
    /\ ~GuardOff(enabled, command)
    /\ ~InCooldown(last_rollback, now, cooldown)
    /\ execCalls' = [execCalls EXCEPT ![idx] = @ + 1]
    /\ pc' = "launching"
    /\ UNCHANGED <<configVars, cycle, idx, probe, probeOut, completed, results,
                   failure_counts, last_rollback, proc, execRet, execPath, now,
                   history, notifyCalls, lastLaunched, probeRaw, launches,
                   orphan, closeCalls, exitCode>>

\* create_subprocess_shell returns the process: `await proc.communicate()`
LaunchOk ==
    /\ pc = "launching"
    /\ pc' = "waiting"
    /\ proc' = [state |-> "running", returncode |-> None]
    /\ lastLaunched' = now
    /\ launches' = launches + 1
    /\ UNCHANGED <<configVars, cycle, idx, probe, probeOut, completed, results,
                   failure_counts, sink, last_rollback, execRet, execPath, now,
                   history, notifyCalls, execCalls, probeRaw, orphan, closeCalls,
                   exitCode>>

\* create_subprocess_shell raises: `except Exception` returns False
LaunchRaise ==
    /\ pc = "launching"
    /\ ExecReturn("False", "launch_raise")
    /\ UNCHANGED <<configVars, cycle, probe, probeOut, completed, results,
                   failure_counts, sink, last_rollback, proc, now, history,
                   notifyCalls, execCalls, lastLaunched, probeRaw, launches,
                   orphan, closeCalls, exitCode>>

\* communicate() returns: the timestamp is taken, then the exit code is read
\* (a failing stderr.decode() after a non-zero exit also ends in False)
ProcExit(rc) ==
    /\ pc = "waiting"
    /\ proc' = [state |-> "exited", returncode |-> rc]
    /\ last_rollback' = now
    /\ ExecReturn(PyBool(ExitOk(rc)), "exited")
    /\ UNCHANGED <<configVars, cycle, probe, probeOut, completed, results,
                   failure_counts, sink, now, history, notifyCalls, execCalls,
                   lastLaunched, probeRaw, launches, orphan, closeCalls, exitCode>>

\* communicate() raises: `except Exception` returns False; the process is
\* neither killed nor waited for, and may still be running
WaitRaise ==
    /\ pc = "waiting"
    /\ proc' = NoProc
    /\ orphan' = TRUE
    /\ ExecReturn("False", "wait_raise")
    /\ UNCHANGED <<configVars, cycle, probe, probeOut, completed, results,
                   failure_counts, sink, last_rollback, now, history,
                   notifyCalls, execCalls, lastLaunched, probeRaw, launches,
                   closeCalls, exitCode>>

\* run_once: the for loop is exhausted, `return results`; run() drops the
\* list and goes on to `await asyncio.sleep(interval)`.  A process left
\* behind by execute() is followed no further than the cycle that started it.
EndCycle ==
    /\ pc = "fold"
    /\ idx > Len(results)
    /\ pc' = "sleep"
    /\ idx' = 0
    /\ results' = <<>>
    /\ launches' = 0
    /\ orphan' = FALSE
    /\ Discard
    /\ UNCHANGED <<configVars, cycle, probe, probeOut, completed, failure_counts,
                   sink, last_rollback, now, history, notifyCalls, execCalls,
                   lastLaunched, probeRaw, closeCalls, exitCode>>

\* a process left behind by execute() terminates
OrphanExit ==
    /\ orphan
    /\ orphan' = FALSE
    /\ UNCHANGED <<configVars, pc, cycle, idx, probe, probeOut, completed,
                   results, failure_counts, sink, last_rollback, proc, execRet,
                   execPath, now, history, notifyCalls, execCalls, lastLaunched,
                   probeRaw, launches, closeCalls, exitCode>>

\* run(): the sleep is over, `while True` goes round
Wake ==
    /\ pc = "sleep"
    /\ pc' = "loop"
    /\ UNCHANGED <<configVars, cycle, idx, probe, probeOut, completed, results,
                   failure_counts, sink, last_rollback, proc, execRet, execPath,
                   now, history, notifyCalls, execCalls, lastLaunched, probeRaw,
                   launches, orphan, closeCalls, exitCode>>

Next ==
    \/ Tick
    \/ StartCycle
    \/ \E i \in 1..N, o \in ProbeOutcomes : ProbeResolve(i, o)
    \/ GatherReturn
    \/ PrintResults
    \/ FoldNotDown
    \/ FoldDown
    \/ NotifyCall
    \/ \E k \in Sinks, ok \in BOOLEAN : SinkResolve(k, ok)
    \/ NotifyReturn
    \/ ExecuteOff
    \/ ExecuteCooldown
    \/ ExecuteLaunch
    \/ LaunchOk
    \/ LaunchRaise
    \/ \E rc \in ExitCodes : ProcExit(rc)
    \/ WaitRaise
    \/ OrphanExit
    \/ EndCycle
    \/ Wake

Spec == Init /\ [][Next]_vars

(* ------------------------- `--once` mode -------------------------------- *)
\* main: asyncio.run(watcher.run_once(verbose=True)) returns the results
ReturnOnce ==
    /\ pc = "fold"
    /\ idx > Len(results)
    /\ pc' = "returned"
    /\ idx' = 0
    /\ launches' = 0
    /\ orphan' = FALSE
    /\ Discard
    /\ UNCHANGED <<configVars, cycle, probe, probeOut, completed, results,
                   failure_counts, sink, last_rollback, now, history,
                   notifyCalls, execCalls, lastLaunched, probeRaw, closeCalls,
                   exitCode>>

\* main: `sys.exit(1 if failed else 0)`
ExitOnce ==
    /\ pc = "returned"
    /\ exitCode' = ExitCodeOf(results)
    /\ pc' = "exited"
    /\ UNCHANGED <<configVars, cycle, idx, probe, probeOut, completed, results,
                   failure_counts, sink, last_rollback, proc, execRet, execPath,
                   now, history, notifyCalls, execCalls, lastLaunched, probeRaw,
                   launches, orphan, closeCalls>>

\* main with --once: one run_once call and the exit; there is neither a
\* sleep nor a second cycle
NextOnce ==
    \/ Tick
    \/ StartCycle
    \/ \E i \in 1..N, o \in ProbeOutcomes : ProbeResolve(i, o)
    \/ GatherReturn
    \/ PrintResults
    \/ FoldNotDown
    \/ FoldDown
    \/ NotifyCall
    \/ \E k \in Sinks, ok \in BOOLEAN : SinkResolve(k, ok)
    \/ NotifyReturn
    \/ ExecuteOff
    \/ ExecuteCooldown
    \/ ExecuteLaunch
    \/ LaunchOk
    \/ LaunchRaise
    \/ \E rc \in ExitCodes : ProcExit(rc)
    \/ WaitRaise
    \/ OrphanExit
    \/ ReturnOnce
    \/ ExitOnce

SpecOnce == Init /\ [][NextOnce]_vars

(* ------------------------ stopping run() -------------------------------- *)
\* The positions of run() after its loop.
StopPcs == {"finally", "close_notifier", "stopped", "raised"}

\* An external interrupt (SIGINT under asyncio.run) reaches run() at the
\* await it is suspended in: the exception unwinds run_once, cancels the
\* tasks of a gather in progress, and run() enters its finally block.  A
\* process being waited for is not killed.
Interrupt ==
    /\ pc \in AwaitPcs
    /\ pc' = "finally"
    /\ probe' = [i \in 1..N |-> IF probe[i] = "running" THEN "cancelled" ELSE probe[i]]
    /\ sink' = [k \in Sinks |-> IF sink[k] = "running" THEN "cancelled" ELSE sink[k]]
    /\ orphan' = (orphan \/ pc = "waiting")
    /\ UNCHANGED <<configVars, cycle, idx, probeOut, completed, results,
                   failure_counts, last_rollback, proc, execRet, execPath, now,
                   history, notifyCalls, execCalls, lastLaunched, probeRaw,
                   launches, closeCalls, exitCode>>

\* run(), finally: `await self.checker.close()` returns or raises
CloseChecker(ok) ==
    /\ pc = "finally"
    /\ closeCalls' = [closeCalls EXCEPT !["checker"] = @ + 1]
    /\ pc' = IF ok THEN "close_notifier" ELSE "raised"
    /\ UNCHANGED <<configVars, cycle, idx, probe, probeOut, completed, results,
                   failure_counts, sink, last_rollback, proc, execRet, execPath,
                   now, history, notifyCalls, execCalls, lastLaunched, probeRaw,
                   launches, orphan, exitCode>>

\* run(), finally: `await self.notifier.close()` returns or raises
CloseNotifier(ok) ==
    /\ pc = "close_notifier"
    /\ closeCalls' = [closeCalls EXCEPT !["notifier"] = @ + 1]
    /\ pc' = IF ok THEN "stopped" ELSE "raised"
    /\ UNCHANGED <<configVars, cycle, idx, probe, probeOut, completed, results,
                   failure_counts, sink, last_rollback, proc, execRet, execPath,
                   now, history, notifyCalls, execCalls, lastLaunched, probeRaw,
                   launches, orphan, exitCode>>

NextRun ==
    \/ Tick
    \/ StartCycle
    \/ \E i \in 1..N, o \in ProbeOutcomes : ProbeResolve(i, o)
    \/ GatherReturn
    \/ PrintResults
    \/ FoldNotDown
    \/ FoldDown
    \/ NotifyCall
    \/ \E k \in Sinks, ok \in BOOLEAN : SinkResolve(k, ok)
    \/ NotifyReturn
    \/ ExecuteOff
    \/ ExecuteCooldown
    \/ ExecuteLaunch
    \/ LaunchOk
    \/ LaunchRaise
    \/ \E rc \in ExitCodes : ProcExit(rc)
    \/ WaitRaise
    \/ OrphanExit
    \/ EndCycle
    \/ Wake
    \/ Interrupt
    \/ \E ok \in BOOLEAN : CloseChecker(ok)
    \/ \E ok \in BOOLEAN : CloseNotifier(ok)

\* One configuration with remediation on and one with it off.
InitPair ==
    /\ Init
    /\ threshold = 1
    /\ cooldown = MaxCooldown
    /\ slack_url # ""
    /\ webhook_url = ""
    /\ enabled = (command # "")

\* run() with an external interrupt possible at every await
SpecRun == InitPair /\ [][NextRun]_vars

(* --------------------------- fairness ----------------------------------- *)
\* The steps of the control path that are ready to run: the event loop
\* runs a ready coroutine, a created subprocess is reported, a timer fires.
Scheduled ==
    \/ StartCycle
    \/ GatherReturn
    \/ PrintResults
    \/ FoldNotDown
    \/ FoldDown
    \/ NotifyCall
    \/ NotifyReturn
    \/ ExecuteOff
    \/ ExecuteCooldown
    \/ ExecuteLaunch
    \/ LaunchOk
    \/ LaunchRaise
    \/ EndCycle
    \/ Wake

\* Every probe resolves (httpx enforces the probe's timeout), every sink
\* delivery resolves (the Notifier's client has a timeout of 10 s), and a
\* launched command terminates (or waiting for it raises).
Resolves ==
    /\ \A i \in 1..N : WF_vars(\E o \in ProbeOutcomes : ProbeResolve(i, o))
    /\ \A k \in Sinks : WF_vars(\E ok \in BOOLEAN : SinkResolve(k, ok))
    /\ WF_vars((\E rc \in ExitCodes : ProcExit(rc)) \/ WaitRaise)

SpecLive == InitPair /\ [][Next]_vars /\ WF_vars(Scheduled) /\ Resolves

(* ------------------------- verification -------------------------------- *)
\* The number of DOWN results at the end of a result history.
RECURSIVE TrailingDowns(_)
TrailingDowns(h) ==
    IF h = <<>> THEN 0
    ELSE IF h[Len(h)] = DOWN
         THEN 1 + TrailingDowns(SubSeq(h, 1, Len(h) - 1))
         ELSE 0

EscalationPcs == {"notify", "notify_wait"} \cup ExecPcs

\* The for loop of the latest cycle is through with service i.
Done(i) == pc \in {"loop", "sleep"} \/ (pc = "fold" /\ i < idx)

\* The for loop of the current cycle has updated the counter of service i
\* (or no result is waiting to be folded).
Counted(i) ==
    \/ pc \in {"loop", "probing", "sleep"}
    \/ (pc = "fold" /\ i < idx)
    \/ (pc \in EscalationPcs /\ i <= idx)

Count(i) == Get(failure_counts, services[i], 0)

\* C1: with k the number of consecutive Down results of a service since its
\* counter was 0, a cycle with k below the threshold makes no notify and no
\* execute call for the service, and the cycle in which k equals the
\* threshold makes exactly one notify and exactly one execute call for it.
C1_ThresholdGatesEscalation ==
    \A i \in 1..N :
        LET k == TrailingDowns(history[i])
        IN /\ notifyCalls[i] <= 1 /\ execCalls[i] <= 1
           /\ k < threshold => notifyCalls[i] = 0 /\ execCalls[i] = 0
           /\ (Done(i) /\ k = threshold) =>
                  notifyCalls[i] = 1 /\ execCalls[i] = 1

\* The second of two consecutive Down results under threshold 2 has escalated.
C1_Witness ==
    /\ threshold = 2
    /\ cycle = 2
    /\ pc = "sleep"
    /\ \E i \in 1..N :
          /\ history[i] = <<DOWN, DOWN>>
          /\ notifyCalls[i] = 1
          /\ execCalls[i] = 1

\* C2: a service's entry in failure_counts is the number of consecutive Down
\* results at the end of its result history: Down adds one, any other result
\* sets it to zero.
C2_CounterIsTrailingDowns ==
    \A i \in 1..N : Counted(i) => Count(i) = TrailingDowns(history[i])

\* A Degraded result and then a Down result: after the third cycle the
\* counter is 1, below threshold 2, and nothing was escalated.
C2_Witness ==
    /\ threshold = 2
    /\ cycle = 3
    /\ pc = "sleep"
    /\ \E i \in 1..N :
          /\ history[i] = <<DEGRADED, DOWN>>
          /\ Count(i) = 1
          /\ notifyCalls[i] = 0
          /\ execCalls[i] = 0

\* C3: the command's process is never started less than `cooldown` after
\* the previous start, whatever became of that one.
C3_CooldownBetweenLaunches ==
    [][(pc = "launching" /\ pc' = "waiting" /\ lastLaunched # None)
          => now - lastLaunched >= cooldown]_vars

\* C4: an execute() call in which launching or waiting raised returns False
\* and has recorded its invocation as the last-invocation timestamp.
C4_RaiseRecordsInvocation ==
    execPath \in {"launch_raise", "wait_raise"} =>
        /\ execRet = "False"
        /\ Truthy(last_rollback)
        /\ (execPath = "wait_raise" => last_rollback >= lastLaunched)

\* C5: with enabled false or the command empty, execute() returns False,
\* starts no process and leaves the timestamp as it was.
C5_OffGuardDoesNothing ==
    (~enabled \/ command = "") =>
        /\ pc \notin {"launching", "waiting"}
        /\ proc = NoProc
        /\ lastLaunched = None
        /\ last_rollback = None
        /\ execRet # "True"
        /\ (execPath # "none" => execPath = "off" /\ execRet = "False")

\* execute() has returned False from a disabled guard that has a command.
C5_Witness ==
    /\ ~enabled
    /\ command = "rollback.sh"
    /\ cooldown = 0
    /\ pc = "fold"
    /\ execPath = "off"
    /\ execRet = "False"
    /\ last_rollback = None

\* C6 (state part): execute() returns True exactly when this call ran the
\* command and it exited with code zero; a non-zero exit returns False with
\* the timestamp recorded.
C6_ReturnValue ==
    execPath # "none" =>
        /\ execRet = "True" <=> (proc.state = "exited" /\ proc.returncode = 0)
        /\ (proc.state = "exited" /\ proc.returncode # 0) =>
               (execRet = "False" /\ last_rollback = now)

\* C6 (step part): an execute() call made less than `cooldown` after the
\* recorded timestamp does not go on to launch.
C6_RejectedWithinCooldown ==
    (pc = "execute" /\ last_rollback # None /\ now - last_rollback < cooldown)
        => pc' # "launching"

\* C6: execute() returns True iff this call ran the command and the command
\* exited with code zero; after a non-zero exit the timestamp is recorded
\* and an execute() within `cooldown` of it is rejected.
C6_TrueIffExitZero == []C6_ReturnValue /\ [][C6_RejectedWithinCooldown]_vars

\* The command exited non-zero: False, with the timestamp taken.
C6_Witness ==
    /\ execPath = "exited"
    /\ proc.returncode = 1
    /\ execRet = "False"
    /\ last_rollback = now
    /\ cooldown > 0

\* C7: whenever a service's result is Down and its counter is at or above
\* the threshold, that cycle notifies and executes for it once more, and the
\* counter goes on counting.
C7_LevelTriggered ==
    \A i \in 1..N :
        LET k == TrailingDowns(history[i])
        IN (Done(i) /\ k >= threshold) =>
               /\ notifyCalls[i] = 1
               /\ execCalls[i] = 1
               /\ Count(i) = k

\* A service above the threshold has been escalated again and the guard
\* rejected the call because of its cooldown.
C7_Witness ==
    /\ pc = "fold"
    /\ execPath = "cooldown"
    /\ idx >= 2
    /\ TrailingDowns(history[idx - 1]) > threshold
    /\ Count(idx - 1) > threshold
    /\ notifyCalls[idx - 1] = 1
    /\ execCalls[idx - 1] = 1

\* C8: execute() starts only when the same service's notify of this cycle
\* has returned with every sink resolved; escalations go one service at a
\* time in declaration order.
C8_NotifyThenExecuteInOrder ==
    /\ \A i \in 1..N : execCalls[i] <= notifyCalls[i]
    /\ pc \in ExecPcs =>
          /\ \A k \in Sinks : sink[k] # "running"
          /\ notifyCalls[idx] = 1
    /\ (\E k \in Sinks : sink[k] = "running") =>
          /\ pc = "notify_wait"
          /\ proc.state # "running"
    /\ pc \in EscalationPcs =>
          /\ \A j \in 1..N : j > idx => notifyCalls[j] = 0 /\ execCalls[j] = 0
          /\ \A j \in 1..N : j < idx => execCalls[j] = notifyCalls[j]
          /\ pc \in {"notify", "notify_wait"} => proc.state # "running"

\* Both services escalate in one cycle with both sinks configured: the
\* second one's execute() is under way.
C8_Witness ==
    /\ slack_url # ""
    /\ webhook_url # ""
    /\ pc = "waiting"
    /\ idx = 2
    /\ notifyCalls = [i \in 1..N |-> 1]
    /\ execCalls = [i \in 1..N |-> 1]

\* C9: check_all returns one result per service, in declaration order,
\* whatever the order in which the probes completed.
C9_ResultsInDeclarationOrder ==
    pc \in {"checked", "fold"} \cup EscalationPcs =>
        /\ Len(results) = N
        /\ \A i \in 1..N : results[i].service_name = services[i]
        /\ pc = "checked" => \A i \in 1..N : results[i] = probeOut[i]

\* The probes completed in the reverse of declaration order.
C9_Witness ==
    /\ pc = "checked"
    /\ completed = <<2, 1>>
    /\ results[1].service_name = "api"
    /\ results[2].service_name = "web"
    /\ results[1].status # results[2].status

\* C10 (state part): while a probe is outstanding nothing but probing goes on.
C10_ProbingOnly ==
    (\E i \in 1..N : probe[i] = "running") =>
        /\ pc = "probing"
        /\ idx = 0
        /\ \A j \in 1..N : notifyCalls[j] = 0 /\ execCalls[j] = 0
        /\ \A k \in Sinks : sink[k] # "running"
        /\ proc.state # "running"

\* C10 (step part): no counter changes while a probe is outstanding, and a
\* probe starts only from the top of the loop, the previous cycle finished.
C10_Step ==
    /\ (\E i \in 1..N : probe[i] = "running") => failure_counts' = failure_counts
    /\ (\E i \in 1..N : probe[i] # "running" /\ probe'[i] = "running") =>
          /\ pc = "loop"
          /\ idx = 0
          /\ results = <<>>
          /\ \A k \in Sinks : sink[k] # "running"
          /\ proc.state # "running"

\* C10: a cycle updates no counter and starts no notify or execute until
\* all its probes have resolved, and the next cycle's probes start only
\* after the cycle's counter updates and escalations.
C10_Barrier == []C10_ProbingOnly /\ [][C10_Step]_vars

\* In the second cycle one probe has resolved Down under threshold 1 and
\* the other is outstanding: the counter is still 0 and nothing is escalated.
C10_Witness ==
    /\ threshold = 1
    /\ cycle = 2
    /\ pc = "probing"
    /\ probe[1] = "done"
    /\ probe[2] = "running"
    /\ probeOut[1].status = DOWN
    /\ Count(1) = 0
    /\ notifyCalls[1] = 0

\* C11 (state part): while notify waits, every configured sink has been
\* started and none is cancelled; when notify has returned, every configured
\* sink has been tried to the end; without a configured sink no delivery is
\* ever attempted; no exception of a sink reaches run_once.
C11_EverySinkTried ==
    /\ pc # "finally"
    /\ pc = "notify_wait" =>
          \A k \in Sinks : IF k \in SinkTasks
                           THEN sink[k] \in {"running", "ok", "failed"}
                           ELSE sink[k] = "idle"
    /\ (pc = "execute" /\ SinkTasks # {}) =>
          \A k \in SinkTasks : sink[k] \in {"ok", "failed"}
    /\ SinkTasks = {} => \A k \in Sinks : sink[k] = "idle"

\* C11 (step part): a sink's failure changes no other sink; notify returns
\* to run_once, whatever the sinks' outcomes, and execute() is next for the
\* same service; without a sink notify returns at once.
C11_Step ==
    /\ \A k \in Sinks : (sink[k] = "running" /\ sink'[k] = "failed") =>
          \A j \in Sinks \ {k} : sink'[j] = sink[j]
    /\ (pc = "notify_wait" /\ pc' # "notify_wait") =>
          pc' = "execute" /\ idx' = idx
    /\ (pc = "notify" /\ SinkTasks = {} /\ pc' # "notify") =>
          pc' = "execute" /\ idx' = idx /\ sink' = sink

\* C11: Notifier.notify never raises to its caller: each configured sink is
\* tried whether the other succeeds or fails, a failing sink neither cancels
\* the other nor makes notify fail, the escalation goes on to execute();
\* with no sink configured notify attempts no delivery and returns.
C11_NotifyNeverRaises == []C11_EverySinkTried /\ [][C11_Step]_vars

\* With both sinks configured the Slack delivery failed, the webhook
\* delivery succeeded, notify has returned and execute() is next.
C11_Witness ==
    /\ slack_url # ""
    /\ webhook_url # ""
    /\ pc = "execute"
    /\ sink["slack"] = "failed"
    /\ sink["webhook"] = "ok"
    /\ notifyCalls[idx] = 1

\* C12: HealthChecker.check never raises and classifies every outcome: a
\* timeout gives Down with error "Timeout"; any other failure gives Down
\* with the failure's description; a response gives Degraded when its status
\* code differs from expected_status, Degraded when the status matches but a
\* configured expected_body is absent from the body, Healthy otherwise; the
\* result is never Unknown.
C12_Classification ==
    \A i \in 1..N :
        /\ probe[i] \in {"idle", "running", "done"}
        /\ probe[i] = "done" =>
              LET o == probeRaw[i]
                  r == probeOut[i]
                  name == services[i]
                  matches == o.status_code = expected_status[name]
                  absent == /\ expected_body[name] # <<>>
                            /\ ~Contains(expected_body[name], o.text)
              IN /\ o \in ProbeOutcomes
                 /\ r.service_name = name
                 /\ r.status \in {HEALTHY, DEGRADED, DOWN}
                 /\ o.kind = "timeout" => r.status = DOWN /\ r.error = "Timeout"
                 /\ o.kind = "error" => r.status = DOWN /\ r.error = o.exc
                 /\ o.kind = "response" =>
                       /\ r.error = "None"
                       /\ ~matches => r.status = DEGRADED
                       /\ (matches /\ absent) => r.status = DEGRADED
                       /\ (matches /\ ~absent) => r.status = HEALTHY

\* Both probes received the same response, the expected status with a body
\* that lacks "ok": Degraded for "api", which expects "ok" in the body, and
\* Healthy for "web", which expects no body.
C12_Witness ==
    /\ probe[1] = "done"
    /\ probe[2] = "done"
    /\ probeRaw[1] = Response(200, <<"k", "o">>)
    /\ probeRaw[2] = Response(200, <<"k", "o">>)
    /\ probeOut[1].status = DEGRADED
    /\ probeOut[2].status = HEALTHY

\* An execute() call is at its cooldown test: the guard is on and an
\* invocation is recorded.
AtCooldownTest ==
    /\ pc = "execute"
    /\ enabled
    /\ command # ""
    /\ last_rollback # None

\* C15 (state part): a call rejected by the cooldown has returned False
\* with no process, within `cooldown` of the recorded invocation.
C15_Rejected ==
    execPath = "cooldown" =>
        /\ execRet = "False"
        /\ proc = NoProc
        /\ pc # "launching" /\ pc # "waiting"
        /\ last_rollback # None
        /\ now - last_rollback < cooldown

\* C15 (step part): the rejected call returns False, starts nothing and
\* writes nothing; once `cooldown` has elapsed since the recorded
\* invocation the call goes on to launch.
C15_Step ==
    /\ (AtCooldownTest /\ now - last_rollback < cooldown /\ pc' # pc) =>
          /\ pc' = "fold"
          /\ execRet' = "False"
          /\ proc' = NoProc
          /\ launches' = launches
          /\ lastLaunched' = lastLaunched
          /\ last_rollback' = last_rollback
          /\ failure_counts' = failure_counts
    /\ (AtCooldownTest /\ now - last_rollback >= cooldown /\ pc' # pc) =>
          pc' = "launching"

\* C15: an execute() call rejected by the cooldown has no side effect: it
\* returns false, launches no process and leaves the timestamp unchanged, so
\* rejected calls do not extend the cooldown and the command is runnable
\* again once `cooldown` has elapsed since the recorded invocation.
C15_RejectionHasNoEffect == []C15_Rejected /\ [][C15_Step]_vars

\* In a later cycle than the one that ran the command, execute() has been
\* rejected: nothing was launched in this cycle and the timestamp is the
\* earlier cycle's.
C15_Witness ==
    /\ cycle >= 2
    /\ pc = "fold"
    /\ execPath = "cooldown"
    /\ execRet = "False"
    /\ launches = 0
    /\ last_rollback = lastLaunched
    /\ now - last_rollback < cooldown

\* C17: failure_counts is written only by the result-folding loop of
\* run_once: folding one service's result changes that service's entry and
\* no other, and probing, notify and execute() change no entry.
C17_CountersFrame ==
    [][/\ failure_counts' # failure_counts =>
             /\ pc = "fold"
             /\ idx \in 1..Len(results)
             /\ LET name == results[idx].service_name
                IN /\ DOMAIN failure_counts' = DOMAIN failure_counts \cup {name}
                   /\ \A n \in DOMAIN failure_counts \ {name} :
                          failure_counts'[n] = failure_counts[n]
       /\ pc \in {"probing", "checked"} \cup EscalationPcs =>
             failure_counts' = failure_counts]_vars

\* The second cycle has folded the first service's second Down result; the
\* second service's counter is still the 1 of the first cycle, its result of
\* this cycle, which is not Down, not yet folded.
C17_Witness ==
    /\ cycle = 2
    /\ pc = "fold"
    /\ idx = 2
    /\ Count(1) = 2
    /\ Count(2) = 1
    /\ results[2].status # DOWN

\* The services whose result of this cycle is Down with the counter at or
\* above the threshold.
Escalated == {i \in 1..N : results[i].status = DOWN /\ Count(i) >= threshold}

\* C19 (state part): when the for loop of a cycle is through and two or
\* more services were Down at or above the threshold, each of them had one
\* notify and one execute() call, the others none.
C19_Counts ==
    (pc = "fold" /\ idx > N /\ Cardinality(Escalated) >= 2) =>
        /\ \A i \in 1..N : notifyCalls[i] = IF i \in Escalated THEN 1 ELSE 0
        /\ \A i \in 1..N : execCalls[i] = IF i \in Escalated THEN 1 ELSE 0
        /\ launches <= Cardinality(Escalated)

\* C19 (step part): an earlier execute() of this cycle started the command
\* and it ran to completion (the one launch of the cycle has its timestamp),
\* and the cooldown still holds: the execute() of a later service returns
\* False and launches nothing.
C19_Step ==
    (/\ pc = "execute"
     /\ idx >= 2
     /\ launches = 1
     /\ last_rollback # None
     /\ last_rollback >= lastLaunched
     /\ now - last_rollback < cooldown
     /\ pc' # pc) =>
        /\ pc' = "fold"
        /\ execRet' = "False"
        /\ launches' = 1
        /\ lastLaunched' = lastLaunched
        /\ last_rollback' = last_rollback

\* C19: the guard is shared by all services: a cycle with k >= 2 services
\* Down at or above the threshold calls notify k times and execute() k
\* times, but once the first of those execute() calls has run the command to
\* completion, within the cooldown the later calls return false and the
\* command is launched once in the cycle.
C19_SharedGuard == []C19_Counts /\ [][C19_Step]_vars

\* The first cycle escalated both services; the first execute() ran the
\* command, the second was rejected by the cooldown of the first.
C19_Witness ==
    /\ cycle = 1
    /\ pc = "fold"
    /\ idx > N
    /\ Escalated = 1..N
    /\ notifyCalls = [i \in 1..N |-> 1]
    /\ execCalls = [i \in 1..N |-> 1]
    /\ launches = 1
    /\ last_rollback # None
    /\ execPath = "cooldown"
    /\ execRet = "False"

\* C13: however run() exits, both the checker's and the notifier's client
\* have been closed, each exactly once, also when closing the first fails.
C13_BothClosedOnce ==
    /\ \A c \in Clients : closeCalls[c] <= 1
    /\ pc \in {"stopped", "raised"} => \A c \in Clients : closeCalls[c] = 1

\* C14: an interrupt does not abort a cycle in progress: when run() has
\* left its loop, the last started run_once is complete (its for loop is
\* through, no task of it was cancelled, no process of it is left running).
C14_NoMidCycleAbort ==
    pc \in StopPcs =>
        /\ idx = 0
        /\ results = <<>>
        /\ \A i \in 1..N : probe[i] # "cancelled"
        /\ \A k \in Sinks : sink[k] # "cancelled"
        /\ proc.state # "running"

\* C16: with --once the process runs exactly one run_once cycle and exits
\* with code 1 if some result of that cycle is not Healthy (Degraded, Down
\* or Unknown), with code 0 if every result is Healthy.
C16_OnceExitCode ==
    /\ cycle <= 1
    /\ pc = "exited" <=> exitCode # None
    /\ exitCode # None =>
          /\ cycle = 1
          /\ Len(results) = N
          /\ \A i \in 1..N : results[i].status = history[i][Len(history[i])]
          /\ exitCode = 1 <=>
                \E i \in 1..N : results[i].status \in {DEGRADED, DOWN, UNKNOWN}
          /\ exitCode = 0 <=> \A i \in 1..N : results[i].status = HEALTHY

\* One result is Degraded, none is Down: the process has exited with 1.
C16_Witness ==
    /\ pc = "exited"
    /\ results[1].status = HEALTHY
    /\ results[2].status = DEGRADED
    /\ exitCode = 1

\* C18 (liveness part): every started cycle completes and is followed by
\* another one (up to the last cycle of the model).
C18_CyclesComplete ==
    /\ \A c \in 1..MaxCycles :
          (cycle = c /\ pc = "probing") ~> (cycle = c /\ pc = "sleep")
    /\ \A c \in 1..(MaxCycles - 1) :
          (cycle = c /\ pc = "sleep") ~> (cycle = c + 1 /\ pc = "probing")

\* C18 (blocking part): while execute() waits for the command nothing but
\* time changes, and the control path gets past the wait only when the
\* command has terminated.
C18_Step ==
    /\ (pc = "waiting" /\ pc' = "waiting") =>
          UNCHANGED <<cycle, idx, probe, results, failure_counts, sink,
                      notifyCalls, execCalls, launches>>
    /\ (pc = "waiting" /\ pc' # "waiting") =>
          (proc'.state = "exited" /\ ~orphan')

\* C18: under fairness, with every probe, sink delivery and launched command
\* resolving, every started cycle completes and is followed by another; a
\* launched command that never terminates blocks the loop at its execute()
\* for ever, with no later probe, counter update, notify or execute.
C18_ProgressOrBlocked == C18_CyclesComplete /\ [][C18_Step]_vars

\* The remediation processes that are running.
InFlight ==
    (IF proc.state = "running" THEN 1 ELSE 0) + (IF orphan THEN 1 ELSE 0)

\* C20: at most one remediation process is in flight, and while one is, no
\* probe, no sink delivery and no other execute() call is running.
C20_OneProcessAlone ==
    /\ InFlight <= 1
    /\ InFlight = 1 =>
          /\ \A i \in 1..N : probe[i] # "running"
          /\ \A k \in Sinks : sink[k] # "running"
          /\ orphan => pc \notin ExecPcs

====
